---- MODULE Spec2Model ----
(***************************************************************************)
(* Traffic-to-route matching and duration estimation (ets-its-api).        *)
(*                                                                         *)
(* Two specifications live in this module:                                 *)
(*   Spec       the analysis functions of api.py applied to one analysis   *)
(*              result (route_data + matched_traffic);                     *)
(*   SpecMatch  RouteProcessor.match_traffic_to_route of route_processor.py *)
(*              running against a network-geometry store.                   *)
(*                                                                         *)
(* Numbers: Python computes with floats; the model computes with exact     *)
(* rationals [n, d] in lowest terms (d > 0).  Distances are carried in     *)
(* decimetres so that 9703.7 m is the integer 97037.  Road names are       *)
(* sequences of one-character strings.                                     *)
(***************************************************************************)
EXTENDS Integers, Sequences, FiniteSets, TLC

(***************************************************************************)
(* Bounds of the model                                                     *)
(***************************************************************************)
MaxSegs == 2
MaxItems == 3
MaxCrowd == 11
MaxSteps == 2
MaxWaypoints == 3

(***************************************************************************)
(* Exact rational arithmetic standing for Python's float arithmetic.       *)
(* DivErr is the outcome of a division by zero (ZeroDivisionError); every  *)
(* operation propagates it, as an exception propagates through the         *)
(* expression that contains the division.                                  *)
(***************************************************************************)
Abs(x) == IF x < 0 THEN -x ELSE x

RECURSIVE GCD(_, _)
GCD(a, b) == IF b = 0 THEN a ELSE GCD(b, a % b)

DivErr == [n |-> 0, d |-> 0]
IsErr(a) == a.d = 0

Rat(n, d) ==
  LET g == GCD(Abs(n), Abs(d))
      s == IF d < 0 THEN -1 ELSE 1
  IN [n |-> (s * n) \div g, d |-> (s * d) \div g]

RInt(k) == [n |-> k, d |-> 1]
RZero == RInt(0)
RIsZero(a) == a.n = 0 /\ a.d # 0
RSub(a, b) ==
  IF IsErr(a) \/ IsErr(b) THEN DivErr
  ELSE Rat(a.n * b.d - b.n * a.d, a.d * b.d)
RMul(a, b) ==
  IF IsErr(a) \/ IsErr(b) THEN DivErr
  ELSE LET x == Rat(a.n, b.d)
           y == Rat(b.n, a.d)
       IN Rat(x.n * y.n, x.d * y.d)
PyDiv(a, b) ==
  IF IsErr(a) \/ IsErr(b) \/ RIsZero(b) THEN DivErr
  ELSE RMul(a, Rat(b.d, b.n))
RLess(a, b) == a.n * b.d < b.n * a.d
RGreater(a, b) == RLess(b, a)

(***************************************************************************)
(* Road names: sequences of characters.  Eszett stands for U+00DF, whose   *)
(* upper-case form in Python is the two characters "SS".                   *)
(***************************************************************************)
Eszett == "sz"
Unnamed == <<"u", "n", "n", "a", "m", "e", "d">>

LowerChar(c) ==
  CASE c = "A" -> "a"
    [] c = "B" -> "b"
    [] c = "S" -> "s"
    [] c = "U" -> "u"
    [] c = "N" -> "n"
    [] c = "M" -> "m"
    [] c = "E" -> "e"
    [] c = "D" -> "d"
    [] OTHER -> c

UpperChar(c) ==
  CASE c = "a" -> <<"A">>
    [] c = "b" -> <<"B">>
    [] c = "s" -> <<"S">>
    [] c = "u" -> <<"U">>
    [] c = "n" -> <<"N">>
    [] c = "m" -> <<"M">>
    [] c = "e" -> <<"E">>
    [] c = "d" -> <<"D">>
    [] c = Eszett -> <<"S", "S">>
    [] OTHER -> <<c>>

lower(s) == [i \in 1..Len(s) |-> LowerChar(s[i])]

RECURSIVE upper(_)
upper(s) == IF s = <<>> THEN <<>> ELSE UpperChar(Head(s)) \o upper(Tail(s))

\* Python's `a in b` for strings
In(a, b) ==
  \E i \in 0..(Len(b) - Len(a)) : SubSeq(b, i + 1, i + Len(a)) = a

(***************************************************************************)
(* api.py: the analysis result and the functions applied to it             *)
(*                                                                         *)
(* result      None, or [route_data, matched_traffic]                      *)
(* route_data  [duration (s), distance (dm), legs, nested]; legs is the    *)
(*             list under 'legs', nested the list under                    *)
(*             result[0].routes[0].legs when a 'result' key is present     *)
(* leg         [has_steps, steps]; a step is its 'name'                    *)
(* segment     [road_name, current_speed (km/h)]                           *)
(***************************************************************************)
\* route_roads and route_specific_traffic are the locals of the same names of
\* the function called last, as they stand when it ends
VARIABLES result, called, returned, route_roads, route_specific_traffic

\* RouteProcessor.match_traffic_to_route (route_processor.py):
\*   store           the link tables of the network-geometry store
\*   route_geometry  the geometry the current invocation was given
\*   traffic_items   the readings it extracted from the traffic document
\*   route_wkt       the route line handed to the store, or NoLine
\*   pc              where the invocation stands
\*   idx             the position of the next reading of the lookup loop
\*   conn            the connection of the invocation: "closed" or "open"
\*   aborted         whether the connection's transaction is in the failed state
\*   matched_data    the list built by the loop, then sorted and returned
\*   error           the exception the invocation ended with, or "none"
\*   queries         the calls of cur.execute the invocation made, in order
VARIABLES store, route_geometry, traffic_items, route_wkt, pc, idx, conn,
          aborted, matched_data, error, queries

apiVars == <<result, called, returned, route_roads, route_specific_traffic>>
matchVars == <<store, route_geometry, traffic_items, route_wkt, pc, idx, conn,
               aborted, matched_data, error, queries>>

\* A request on one of the request surfaces (api.py, mcp_api.py,
\* mcp_http_server.py); result is then what check_route_traffic returned:
\*   request      the surface called and the waypoints it was given
\*   rpc          where the handler stands
\*   contacted    the services the handler has called so far
\*   osrm_route   what get_route_from_osrm returned
\*   response     the response of the handler
VARIABLES request, rpc, contacted, osrm_route, response

\* the route document given to _extract_route_roads (api.py)
VARIABLE route_document

requestVars == <<request, rpc, contacted, osrm_route, response>>
vars == <<apiVars, matchVars, requestVars, route_document>>

None == [kind |-> "none"]
Raised(e) == [kind |-> "raised", error |-> e]

RECURSIVE SeqToSet(_)
SeqToSet(s) == IF s = <<>> THEN {} ELSE {Head(s)} \cup SeqToSet(Tail(s))

RECURSIVE Sum(_)
Sum(s) == IF s = <<>> THEN 0 ELSE Head(s) + Sum(Tail(s))

Min(S) == CHOOSE x \in S : \A y \in S : x <= y
Max(S) == CHOOSE x \in S : \A y \in S : x >= y

\* names of the steps of the legs that carry 'steps', placeholders dropped
RECURSIVE StepNames(_)
StepNames(legs) ==
  IF legs = <<>> THEN {}
  ELSE LET leg == Head(legs)
           here == IF leg.has_steps
                   THEN {n \in SeqToSet(leg.steps) : n # <<>> /\ n # Unnamed}
                   ELSE {}
       IN here \cup StepNames(Tail(legs))

extract_route_roads(route_data) ==
  StepNames(route_data.legs)
    \cup (IF route_data.nested.present THEN StepNames(route_data.nested.legs) ELSE {})

\* mutant: with no route roads nothing is relevant (fail closed)
IsRouteSpecific_fail_closed(match, roads) ==
  LET road_name == lower(match.road_name)
  IN \E route_road \in roads :
       In(lower(route_road), road_name) \/ In(road_name, lower(route_road))

\* mutant: only "route road inside the segment's name" is tested
IsRouteSpecific_one_way(match, roads) ==
  LET road_name == lower(match.road_name)
  IN IF roads # {}
     THEN \E route_road \in roads : In(lower(route_road), road_name)
     ELSE TRUE

\* mutant: a segment without a road name is never relevant to a named road
IsRouteSpecific_named_only(match, roads) ==
  LET road_name == lower(match.road_name)
  IN IF roads # {}
     THEN /\ road_name # <<>>
          /\ \E route_road \in roads :
               In(lower(route_road), road_name) \/ In(road_name, lower(route_road))
     ELSE TRUE

\* the relevance test of one matched segment
IsRouteSpecific(match, roads) ==
  LET road_name == lower(match.road_name)
  IN IF roads # {}
     THEN \E route_road \in roads :
            In(lower(route_road), road_name) \/ In(road_name, lower(route_road))
     ELSE TRUE

filter_route_specific(matched_traffic, roads) ==
  SelectSeq(matched_traffic, LAMBDA match : IsRouteSpecific(match, roads))

Speeds(segs) == [i \in 1..Len(segs) |-> segs[i].current_speed]

\* distance is carried in decimetres: metres = distance / 10
Metres(route_data) == Rat(route_data.distance, 10)

average_speed(segs) == PyDiv(RInt(Sum(Speeds(segs))), RInt(Len(segs)))

\* mutant: the guard on the mean speed is missing
traffic_duration_of_unguarded(route_data, avg_traffic_speed) ==
  RMul(PyDiv(PyDiv(Metres(route_data), RInt(1000)), avg_traffic_speed), RInt(3600))

traffic_duration_of(route_data, avg_traffic_speed) ==
  LET route_distance_km == PyDiv(Metres(route_data), RInt(1000))
  IN IF RGreater(avg_traffic_speed, RZero)
     THEN RMul(PyDiv(route_distance_km, avg_traffic_speed), RInt(3600))
     ELSE RInt(route_data.duration)

\* mutant: the percentage is taken of the adjusted duration
time_difference_percent_of_adjusted(route_data, traffic_duration) ==
  IF route_data.duration > 0
  THEN RMul(PyDiv(RSub(traffic_duration, RInt(route_data.duration)),
                  traffic_duration), RInt(100))
  ELSE RZero

time_difference_percent_of(route_data, traffic_duration) ==
  IF route_data.duration > 0
  THEN RMul(PyDiv(RSub(traffic_duration, RInt(route_data.duration)),
                  RInt(route_data.duration)), RInt(100))
  ELSE RZero

\* mutant: <= where the code has <
traffic_coverage_of_leq(relevant, matched_traffic) ==
  IF Len(relevant) <= Len(matched_traffic) THEN "partial" ELSE "good"

traffic_coverage_of(relevant, matched_traffic) ==
  IF Len(relevant) < Len(matched_traffic) THEN "partial" ELSE "good"

\* mutant: the no-data aggregate reports the free-flow estimate as a delay
no_relevant_data_result_delta(route_data) ==
  LET speed == PyDiv(PyDiv(Metres(route_data), RInt(1000)),
                     PyDiv(RInt(route_data.duration), RInt(3600)))
  IN IF IsErr(speed) THEN Raised("ZeroDivisionError")
     ELSE [kind |-> "dict",
           duration_seconds |-> RInt(route_data.duration),
           distance_meters |-> Metres(route_data),
           average_speed_kmh |-> speed,
           time_difference_seconds |-> RInt(route_data.duration),
           time_difference_percent |-> RZero,
           traffic_segments |-> 0,
           traffic_coverage |-> "no_relevant_data"]

\* mutant: the no-data aggregate is labelled as partial coverage
no_relevant_data_result_partial(route_data) ==
  LET speed == PyDiv(PyDiv(Metres(route_data), RInt(1000)),
                     PyDiv(RInt(route_data.duration), RInt(3600)))
  IN IF IsErr(speed) THEN Raised("ZeroDivisionError")
     ELSE [kind |-> "dict",
           duration_seconds |-> RInt(route_data.duration),
           distance_meters |-> Metres(route_data),
           average_speed_kmh |-> speed,
           time_difference_seconds |-> RZero,
           time_difference_percent |-> RZero,
           traffic_segments |-> 0,
           traffic_coverage |-> "partial"]

\* the aggregate returned when no segment is relevant
no_relevant_data_result(route_data) ==
  LET speed == PyDiv(PyDiv(Metres(route_data), RInt(1000)),
                     PyDiv(RInt(route_data.duration), RInt(3600)))
  IN IF IsErr(speed) THEN Raised("ZeroDivisionError")
     ELSE [kind |-> "dict",
           duration_seconds |-> RInt(route_data.duration),
           distance_meters |-> Metres(route_data),
           average_speed_kmh |-> speed,
           time_difference_seconds |-> RZero,
           time_difference_percent |-> RZero,
           traffic_segments |-> 0,
           traffic_coverage |-> "no_relevant_data"]

extract_traffic_adjusted_route(res) ==
  IF res = None THEN None
  ELSE
    LET route_data == res.route_data
        matched_traffic == res.matched_traffic
        relevant == filter_route_specific(matched_traffic,
                                          extract_route_roads(route_data))
    IN IF relevant = <<>>
       THEN no_relevant_data_result(route_data)
       ELSE LET avg_traffic_speed == average_speed(relevant)
                traffic_duration == traffic_duration_of(route_data, avg_traffic_speed)
                percent == time_difference_percent_of(route_data, traffic_duration)
            IN IF IsErr(avg_traffic_speed) \/ IsErr(traffic_duration) \/ IsErr(percent)
               THEN Raised("ZeroDivisionError")
               ELSE [kind |-> "dict",
                     duration_seconds |-> traffic_duration,
                     distance_meters |-> Metres(route_data),
                     average_speed_kmh |-> avg_traffic_speed,
                     time_difference_seconds |->
                       RSub(traffic_duration, RInt(route_data.duration)),
                     time_difference_percent |-> percent,
                     traffic_segments |-> Len(relevant),
                     total_traffic_segments_in_area |-> Len(matched_traffic),
                     traffic_coverage |-> traffic_coverage_of(relevant, matched_traffic),
                     speed_range |-> [min_kmh |-> Min(SeqToSet(Speeds(relevant))),
                                      max_kmh |-> Max(SeqToSet(Speeds(relevant)))]]

\* the second copy of the filter, in the original-format generator
filter_route_specific_original(matched_traffic, roads) ==
  SelectSeq(matched_traffic, LAMBDA match : IsRouteSpecific(match, roads))

traffic_duration_original(route_data, relevant) ==
  IF relevant # <<>>
  THEN LET avg_traffic_speed == average_speed(relevant)
           route_distance_km == PyDiv(Metres(route_data), RInt(1000))
       IN IF RGreater(avg_traffic_speed, RZero)
          THEN RMul(PyDiv(route_distance_km, avg_traffic_speed), RInt(3600))
          ELSE RInt(route_data.duration)
  ELSE RInt(route_data.duration)

generate_traffic_adjusted_route_original_format(res) ==
  IF res = None THEN None
  ELSE
    LET route_data == res.route_data
        matched_traffic == res.matched_traffic
        roads == extract_route_roads(route_data)
        relevant == filter_route_specific_original(matched_traffic, roads)
        traffic_duration == traffic_duration_original(route_data, relevant)
        percent == time_difference_percent_of(route_data, traffic_duration)
        avg == IF relevant # <<>> THEN average_speed(relevant) ELSE RZero
    IN IF IsErr(traffic_duration) \/ IsErr(percent) \/ IsErr(avg)
       THEN Raised("ZeroDivisionError")
       ELSE [kind |-> "dict",
             duration |-> traffic_duration,
             distance |-> Metres(route_data),
             traffic_metadata |->
               [original_duration |-> RInt(route_data.duration),
                traffic_adjusted_duration |-> traffic_duration,
                time_difference_seconds |->
                  RSub(traffic_duration, RInt(route_data.duration)),
                time_difference_percent |-> percent,
                traffic_segments_used |-> Len(relevant),
                total_traffic_segments_in_area |-> Len(matched_traffic),
                route_roads_detected |-> roads,
                average_traffic_speed_kmh |-> avg]]

\* mutant: >= 20 is already a heavy delay
traffic_condition_of_geq(time_diff_pct) ==
  IF ~RLess(time_diff_pct, RInt(20)) THEN "heavy_delay"
  ELSE IF RGreater(time_diff_pct, RInt(10)) THEN "moderate_delay"
  ELSE IF RLess(time_diff_pct, RInt(-10)) THEN "faster_than_expected"
  ELSE "normal"

traffic_condition_of(time_diff_pct) ==
  IF RGreater(time_diff_pct, RInt(20)) THEN "heavy_delay"
  ELSE IF RGreater(time_diff_pct, RInt(10)) THEN "moderate_delay"
  ELSE IF RLess(time_diff_pct, RInt(-10)) THEN "faster_than_expected"
  ELSE "normal"

extract_traffic_adjusted_route_simple(res) ==
  LET traffic_adjusted == extract_traffic_adjusted_route(res)
  IN IF traffic_adjusted.kind = "raised" THEN traffic_adjusted
     ELSE IF traffic_adjusted = None
     \* only a falsy result gives None, and result['route_data'] then raises
     THEN Raised("TypeError")
     ELSE [kind |-> "dict",
           duration_seconds |-> traffic_adjusted.duration_seconds,
           time_difference_seconds |-> traffic_adjusted.time_difference_seconds,
           time_difference_minutes |->
             PyDiv(traffic_adjusted.time_difference_seconds, RInt(60)),
           traffic_condition |->
             traffic_condition_of(traffic_adjusted.time_difference_percent),
           average_speed_kmh |-> traffic_adjusted.average_speed_kmh]

\* f"{x:.1f}": the number of tenths shown, ties to the even tenth
format_1f(x) ==
  LET t == 10 * x.n
      q == t \div x.d
      r == t - q * x.d
  IN IF 2 * r > x.d \/ (2 * r = x.d /\ q % 2 = 1) THEN q + 1 ELSE q

\* a recommendation: its text, and the number formatted into it if any
Advice(text) == [text |-> text, arg |-> <<>>]
AdviceWith(text, number) == [text |-> text, arg |-> <<number>>]

UnableToAnalyze == Advice("Unable to analyze traffic for this route")
NoTrafficData == Advice("No traffic data available for this specific route")
NoDataForRoads ==
  Advice("No traffic data available for the specific roads on this route")
LocalRoads ==
  Advice("Route uses local roads that may not be monitored by traffic systems")
UseOriginal == Advice("Use original route time estimate")
LimitedData == Advice("Limited traffic data available for this route")
UseOriginalWithCaution == Advice("Use original route time estimate with caution")
ExpectLonger(minutes) ==
  AdviceWith("Expect {:.1f} minutes longer than planned due to traffic",
             format_1f(minutes))
ConsiderAlternative ==
  Advice("Consider departing earlier or finding an alternative route")
ArriveEarlier(minutes) ==
  AdviceWith("Traffic is flowing well - you may arrive {:.1f} minutes earlier",
             format_1f([n |-> Abs(minutes.n), d |-> minutes.d]))
CloseToNormal ==
  Advice("Current traffic conditions are close to normal expectations")
HeavyTraffic == Advice("Heavy traffic detected on monitored segments")
ModerateTraffic == Advice("Moderate traffic on monitored segments")
GoodFlow == Advice("Good traffic flow on monitored segments")
LimitedCoverage(traffic_segments) ==
  AdviceWith("Limited coverage: only {} relevant traffic segments found",
             traffic_segments)

\* mutant: five minutes is already a delay
delay_advice_geq(time_diff_minutes, traffic_segments) ==
  IF traffic_segments = 0 THEN <<LimitedData, UseOriginalWithCaution>>
  ELSE IF ~RLess(time_diff_minutes, RInt(5))
  THEN <<ExpectLonger(time_diff_minutes), ConsiderAlternative>>
  ELSE IF RLess(time_diff_minutes, RInt(-2)) THEN <<ArriveEarlier(time_diff_minutes)>>
  ELSE <<CloseToNormal>>

\* the time-based recommendation
delay_advice(time_diff_minutes, traffic_segments) ==
  IF traffic_segments = 0 THEN <<LimitedData, UseOriginalWithCaution>>
  ELSE IF RGreater(time_diff_minutes, RInt(5))
  THEN <<ExpectLonger(time_diff_minutes), ConsiderAlternative>>
  ELSE IF RLess(time_diff_minutes, RInt(-2)) THEN <<ArriveEarlier(time_diff_minutes)>>
  ELSE <<CloseToNormal>>

\* the speed-based note
flow_note(avg_speed) ==
  IF RLess(avg_speed, RInt(20)) THEN <<HeavyTraffic>>
  ELSE IF RLess(avg_speed, RInt(30)) THEN <<ModerateTraffic>>
  ELSE <<GoodFlow>>

\* mutant: a tenth of the matched segments already counts as limited
coverage_note_leq(traffic_segments, total_segments) ==
  IF 10 * traffic_segments <= total_segments
  THEN <<LimitedCoverage(traffic_segments)>>
  ELSE <<>>

\* traffic_segments < total_segments * 0.1
coverage_note(traffic_segments, total_segments) ==
  IF 10 * traffic_segments < total_segments
  THEN <<LimitedCoverage(traffic_segments)>>
  ELSE <<>>

\* the recommendations for the no-relevant-data aggregate
no_relevant_advice == <<NoDataForRoads, LocalRoads, UseOriginal>>

\* mutant: the no-data branch does not return, the notes below it follow
recommendations_of_no_return(traffic_adjusted) ==
  LET traffic_segments == traffic_adjusted.traffic_segments
      no_data == IF traffic_adjusted.traffic_coverage = "no_relevant_data"
                 THEN no_relevant_advice ELSE <<>>
  IN no_data
       \o delay_advice(PyDiv(traffic_adjusted.time_difference_seconds, RInt(60)),
                       traffic_segments)
       \o flow_note(traffic_adjusted.average_speed_kmh)

\* the list built from the aggregate (api.py, after the call that computes it)
recommendations_of(traffic_adjusted) ==
  IF traffic_adjusted.traffic_coverage = "no_relevant_data"
  THEN no_relevant_advice
  ELSE LET traffic_segments == traffic_adjusted.traffic_segments
       IN delay_advice(PyDiv(traffic_adjusted.time_difference_seconds, RInt(60)),
                       traffic_segments)
            \o (IF traffic_segments > 0
                THEN flow_note(traffic_adjusted.average_speed_kmh)
                       \o coverage_note(traffic_segments,
                                        traffic_adjusted.total_traffic_segments_in_area)
                ELSE <<>>)

generate_recommendations(res) ==
  IF res = None THEN [kind |-> "list", items |-> <<UnableToAnalyze>>]
  ELSE LET traffic_adjusted == extract_traffic_adjusted_route(res)
       IN IF traffic_adjusted.kind = "raised" THEN traffic_adjusted
          ELSE IF traffic_adjusted = None
          THEN [kind |-> "list", items |-> <<NoTrafficData>>]
          ELSE [kind |-> "list", items |-> recommendations_of(traffic_adjusted)]

(***************************************************************************)
(* Inputs of the analysis functions                                        *)
(***************************************************************************)
SegmentNames == {<<>>, <<"A", "b">>, <<Eszett>>}
SegmentSpeeds == {0, 30, 50}
Segments == [road_name : SegmentNames, current_speed : SegmentSpeeds]

RECURSIVE SeqsUpTo(_, _)
SeqsUpTo(S, n) ==
  IF n = 0 THEN {<<>>}
  ELSE LET shorter == SeqsUpTo(S, n - 1)
       IN shorter \cup {Append(q, x) : q \in {r \in shorter : Len(r) = n - 1}, x \in S}

Leg(names) == [has_steps |-> TRUE, steps |-> names]
LegWithoutSteps == [has_steps |-> FALSE, steps |-> <<>>]
NoNested == [present |-> FALSE, legs |-> <<>>]
Nested(legs) == [present |-> TRUE, legs |-> legs]

\* the shapes of route document: legs and the nested result wrapper
RouteShapes ==
  { [legs |-> <<>>, nested |-> NoNested],
    [legs |-> <<LegWithoutSteps>>, nested |-> NoNested],
    [legs |-> <<Leg(<<<<>>, Unnamed>>)>>, nested |-> NoNested],
    [legs |-> <<Leg(<<<<"b">>>>)>>, nested |-> NoNested],
    [legs |-> <<Leg(<<<<"A", "B", "S">>, <<"A", "B", "S">>>>)>>, nested |-> NoNested],
    [legs |-> <<Leg(<<<<"s", "s">>>>)>>, nested |-> NoNested],
    [legs |-> <<Leg(<<<<"b">>>>), Leg(<<Unnamed, <<"s", "s">>>>)>>, nested |-> NoNested],
    [legs |-> <<>>, nested |-> Nested(<<Leg(<<<<"A", "B", "S">>>>)>>)],
    [legs |-> <<Leg(<<<<"b">>>>)>>, nested |-> Nested(<<>>)] }

\* (duration in seconds, distance in decimetres)
RouteMetrics ==
  { <<0, 60000>>, <<600, 0>>, <<600, 45000>>, <<600, 55000>>,
    <<600, 60000>>, <<600, 60001>>, <<600, 97037>> }

RouteData ==
  { [duration |-> m[1], distance |-> m[2], legs |-> sh.legs, nested |-> sh.nested] :
      m \in RouteMetrics, sh \in RouteShapes }

Results ==
  {None} \cup [route_data : RouteData, matched_traffic : SeqsUpTo(Segments, MaxSegs)]

\* results for the recommendations: one segment on the route's road "b" and
\* a crowd of matched segments on other roads, over the metrics that put the
\* time difference at exactly -2 and 5 minutes as well
AdviceMetrics == RouteMetrics \cup {<<600, 40000>>, <<600, 75000>>}
AdviceSpeeds == SegmentSpeeds \cup {20}
OnRoute(speed) == [road_name |-> <<"A", "b">>, current_speed |-> speed]
OffRoute == [road_name |-> <<Eszett>>, current_speed |-> 50]
Crowd(size) == [i \in 1..size |-> OffRoute]

AdviceResults ==
  { [route_data |-> [duration |-> m[1], distance |-> m[2],
                     legs |-> <<Leg(<<<<"b">>>>)>>, nested |-> NoNested],
     matched_traffic |-> <<OnRoute(speed)>> \o Crowd(size)] :
      m \in AdviceMetrics, speed \in AdviceSpeeds,
      size \in {0} \cup ((MaxCrowd - 2)..MaxCrowd) }

Unset == [kind |-> "unset"]

\* no request is being handled
RequestIdle ==
  /\ request = [surface |-> "none"]
  /\ rpc = "idle"
  /\ contacted = {}
  /\ osrm_route = "none"
  /\ response = Unset

\* no invocation of the matcher is under way
MatcherIdle ==
  /\ store = [t \in {"moct_link", "moct_link_table", "links"} |-> "populated"]
  /\ route_geometry = "none"
  /\ traffic_items = <<>>
  /\ route_wkt = "none"
  /\ pc = "idle"
  /\ idx = 1
  /\ conn = "closed"
  /\ aborted = FALSE
  /\ matched_data = <<>>
  /\ error = "none"
  /\ queries = <<>>

Init ==
  /\ result \in Results \cup AdviceResults
  /\ called = "nothing"
  /\ returned = Unset
  /\ route_roads = {}
  /\ route_specific_traffic = <<>>
  /\ MatcherIdle
  /\ RequestIdle
  /\ route_document = None

\* the locals route_roads and route_specific_traffic at the end of a call
route_roads_after(res) ==
  IF res = None THEN {} ELSE extract_route_roads(res.route_data)

route_specific_after(res) ==
  IF res = None THEN <<>>
  ELSE filter_route_specific(res.matched_traffic, route_roads_after(res))

route_specific_after_original(res) ==
  IF res = None THEN <<>>
  ELSE filter_route_specific_original(res.matched_traffic, route_roads_after(res))

\* mutant: the filter removes the irrelevant segments from the list it is given
result_after_filtered_in_place(res) ==
  IF res = None THEN res
  ELSE [res EXCEPT !.matched_traffic = route_specific_after(res)]

\* the caller's result when a call ends: the functions read result, route_data
\* and matched_traffic, build new lists and dicts, and assign into none of them
result_after(res) == res

ExtractTrafficAdjustedRoute ==
  /\ called' = "extract_traffic_adjusted_route"
  /\ returned' = extract_traffic_adjusted_route(result)
  /\ route_roads' = route_roads_after(result)
  /\ route_specific_traffic' = route_specific_after(result)
  /\ result' = result_after(result)
  /\ UNCHANGED <<matchVars, requestVars, route_document>>

GenerateOriginalFormat ==
  /\ called' = "generate_traffic_adjusted_route_original_format"
  /\ returned' = generate_traffic_adjusted_route_original_format(result)
  /\ route_roads' = route_roads_after(result)
  /\ route_specific_traffic' = route_specific_after_original(result)
  /\ result' = result_after(result)
  /\ UNCHANGED <<matchVars, requestVars, route_document>>

ExtractTrafficAdjustedRouteSimple ==
  /\ called' = "extract_traffic_adjusted_route_simple"
  /\ returned' = extract_traffic_adjusted_route_simple(result)
  /\ route_roads' = route_roads_after(result)
  /\ route_specific_traffic' = route_specific_after(result)
  /\ result' = result_after(result)
  /\ UNCHANGED <<matchVars, requestVars, route_document>>

\* the locals are those of the call to _extract_traffic_adjusted_route it makes
GenerateRecommendations ==
  /\ called' = "generate_recommendations"
  /\ returned' = generate_recommendations(result)
  /\ route_roads' = route_roads_after(result)
  /\ route_specific_traffic' = route_specific_after(result)
  /\ result' = result_after(result)
  /\ UNCHANGED <<matchVars, requestVars, route_document>>

Next ==
  \/ ExtractTrafficAdjustedRoute
  \/ GenerateOriginalFormat
  \/ ExtractTrafficAdjustedRouteSimple
  \/ GenerateRecommendations

Spec == Init /\ [][Next]_vars

(***************************************************************************)
(* route_processor.py: RouteProcessor.match_traffic_to_route               *)
(*                                                                         *)
(* The store holds three candidate link tables; each is missing, empty or  *)
(* populated with the rows of NetworkRows (link -> distance to the route   *)
(* in metres, for the links within the buffer).  A query on a missing      *)
(* table raises psycopg2.Error and leaves the connection's transaction in  *)
(* the failed state, in which every later query on it raises as well.      *)
(***************************************************************************)
TableQueries == <<"moct_link", "moct_link_table", "links">>
Tables == {"moct_link", "moct_link_table", "links"}
Stores == [Tables -> {"missing", "empty", "populated"}]

NoRow == -1
NetworkRows == [l \in {"L1", "L2", "L3"} |->
                  CASE l = "L1" -> 10 [] l = "L2" -> 5 [] l = "L3" -> 10]

\* the readings of the traffic feed: linkId ("" when missing), speed as the
\* feed gives it, roadName
TrafficItems ==
  { [linkId |-> "L1", speed |-> "30", roadName |-> <<"A", "b">>],
    [linkId |-> "L2", speed |-> "50", roadName |-> <<>>],
    [linkId |-> "L3", speed |-> "30", roadName |-> <<Eszett>>],
    [linkId |-> "L4", speed |-> "50", roadName |-> <<"A", "b">>],
    [linkId |-> "", speed |-> "30", roadName |-> <<"A", "b">>],
    [linkId |-> "L1", speed |-> "abc", roadName |-> <<>>] }

\* the shapes of traffic document: body.items, data, or neither
TrafficShapes == {"body_items", "data", "neither"}

\* an encoded polyline string, a mapping with 0, 1 or 2 coordinates, or a
\* value that is neither a string nor a mapping
RouteGeometries == {"encoded", "coords0", "coords1", "coords2", "other"}

NotANumber == -1
\* float(text): the number, or NotANumber where float raises ValueError
to_float(text) ==
  CASE text = "30" -> 30
    [] text = "50" -> 50
    [] OTHER -> NotANumber

\* the number of coordinates the geometry resolves to
route_coords_of(geometry) ==
  CASE geometry = "encoded" -> 0
    [] geometry = "coords0" -> 0
    [] geometry = "coords1" -> 1
    [] geometry = "coords2" -> 2

coords_to_linestring_wkt(n) == IF n < 2 THEN "NoLine" ELSE "LINESTRING"

\* cur.execute + cur.fetchone of one candidate query:
\* [raised, row (distance or NoRow), aborted after it]
execute_query(st, table, link_id, wkt, failed) ==
  IF failed THEN [raised |-> TRUE, row |-> NoRow, aborted |-> TRUE]
  ELSE IF st[table] = "missing" THEN [raised |-> TRUE, row |-> NoRow, aborted |-> TRUE]
  ELSE IF st[table] = "populated" /\ wkt = "LINESTRING" /\ link_id \in DOMAIN NetworkRows
  THEN [raised |-> FALSE, row |-> NetworkRows[link_id], aborted |-> FALSE]
  ELSE [raised |-> FALSE, row |-> NoRow, aborted |-> FALSE]

\* the loop over table_queries from candidate k on: [row, aborted]
RECURSIVE try_queries(_, _, _, _, _)
try_queries(st, k, link_id, wkt, failed) ==
  IF k > Len(TableQueries) THEN [row |-> NoRow, aborted |-> failed]
  ELSE LET q == execute_query(st, TableQueries[k], link_id, wkt, failed)
       IN IF ~q.raised /\ q.row # NoRow
          THEN [row |-> q.row, aborted |-> q.aborted]
          ELSE try_queries(st, k + 1, link_id, wkt, q.aborted)

\* the calls of cur.execute that the loop from candidate k on makes
RECURSIVE executed_queries(_, _, _, _, _)
executed_queries(st, k, link_id, wkt, failed) ==
  IF k > Len(TableQueries) THEN <<>>
  ELSE LET q == execute_query(st, TableQueries[k], link_id, wkt, failed)
           call == [table |-> TableQueries[k], link_id |-> link_id, route_wkt |-> wkt]
       IN IF ~q.raised /\ q.row # NoRow
          THEN <<call>>
          ELSE <<call>> \o executed_queries(st, k + 1, link_id, wkt, q.aborted)

\* mutant: a reading without linkId is looked up like any other
has_link_id_always(item) == TRUE

\* `if not link_id: continue`
has_link_id(item) == item.linkId # ""

matched_segment(item, row) ==
  [link_id |-> item.linkId,
   distance_to_route_m |-> row,
   current_speed |-> to_float(item.speed),
   road_name |-> item.roadName,
   api_data |-> item]

\* x goes behind every element whose key is not greater (stable)
RECURSIVE insert_by_distance(_, _)
insert_by_distance(sorted, x) ==
  IF sorted = <<>> THEN <<x>>
  ELSE IF x.distance_to_route_m < Head(sorted).distance_to_route_m
       THEN <<x>> \o sorted
       ELSE <<Head(sorted)>> \o insert_by_distance(Tail(sorted), x)

\* mutant: the list is returned as the loop built it
sort_omitted(data) == data

\* list.sort(key=distance_to_route_m)
RECURSIVE sort_by_distance(_)
sort_by_distance(data) ==
  IF data = <<>> THEN <<>>
  ELSE insert_by_distance(sort_by_distance(SubSeq(data, 1, Len(data) - 1)),
                          data[Len(data)])

InitMatch ==
  /\ result = None
  /\ called = "nothing"
  /\ returned = Unset
  /\ route_roads = {}
  /\ route_specific_traffic = <<>>
  /\ store \in Stores
  /\ route_geometry = "none"
  /\ traffic_items = <<>>
  /\ route_wkt = "none"
  /\ pc = "idle"
  /\ idx = 1
  /\ conn = "closed"
  /\ aborted = FALSE
  /\ matched_data = <<>>
  /\ error = "none"
  /\ queries = <<>>
  /\ RequestIdle
  /\ route_document = None

\* psycopg2.connect fails: the exception leaves the function
MatchConnectFails ==
  /\ pc = "idle"
  /\ \E geometry \in RouteGeometries, items \in SeqsUpTo(TrafficItems, MaxItems) :
       /\ route_geometry' = geometry
       /\ traffic_items' = items
  /\ route_wkt' = "none"
  /\ pc' = "raised"
  /\ error' = "OperationalError"
  /\ conn' = "closed"
  /\ aborted' = FALSE
  /\ idx' = 1
  /\ matched_data' = <<>>
  /\ queries' = <<>>
  /\ UNCHANGED <<store, apiVars, requestVars, route_document>>

\* the invocation up to the lookup loop: connect, extract the readings, build
\* the route line; with the early returns and the failure on the geometry
MatchBegin ==
  /\ pc = "idle"
  /\ \E geometry \in RouteGeometries, shape \in TrafficShapes,
        items \in SeqsUpTo(TrafficItems, MaxItems) :
       LET extracted == IF shape = "neither" THEN <<>> ELSE items
       IN /\ route_geometry' = geometry
          /\ traffic_items' = extracted
          /\ matched_data' = <<>>
          /\ queries' = <<>>
          /\ aborted' = FALSE
          /\ idx' = 1
          /\ IF extracted = <<>>
             THEN /\ conn' = "closed"
                  /\ pc' = "returned"
                  /\ error' = "none"
                  /\ route_wkt' = "none"
             ELSE IF geometry = "other"
             THEN /\ conn' = "open"
                  /\ pc' = "raised"
                  /\ error' = "AttributeError"
                  /\ route_wkt' = "none"
             ELSE IF route_coords_of(geometry) = 0
             THEN /\ conn' = "closed"
                  /\ pc' = "returned"
                  /\ error' = "none"
                  /\ route_wkt' = "none"
             ELSE /\ conn' = "open"
                  /\ pc' = "loop"
                  /\ error' = "none"
                  /\ route_wkt' = coords_to_linestring_wkt(route_coords_of(geometry))
  /\ UNCHANGED <<store, apiVars, requestVars, route_document>>

\* one pass of the loop over traffic_items
MatchItem ==
  /\ pc = "loop"
  /\ idx <= Len(traffic_items)
  /\ LET item == traffic_items[idx]
         q == try_queries(store, 1, item.linkId, route_wkt, aborted)
     IN IF ~has_link_id(item)
        THEN UNCHANGED <<aborted, matched_data, queries>>
        ELSE /\ aborted' = q.aborted
             /\ queries' = queries \o executed_queries(store, 1, item.linkId,
                                                       route_wkt, aborted)
             /\ matched_data' =
                  IF q.row # NoRow /\ to_float(item.speed) # NotANumber
                  THEN Append(matched_data, matched_segment(item, q.row))
                  ELSE matched_data
  /\ idx' = idx + 1
  /\ UNCHANGED <<store, route_geometry, traffic_items, route_wkt, pc, conn, error,
                 apiVars, requestVars, route_document>>

\* after the loop: close cursor and connection, sort, return
MatchReturn ==
  /\ pc = "loop"
  /\ idx > Len(traffic_items)
  /\ conn' = "closed"
  /\ matched_data' = sort_by_distance(matched_data)
  /\ pc' = "returned"
  /\ UNCHANGED <<store, route_geometry, traffic_items, route_wkt, idx, aborted,
                 error, queries, apiVars, requestVars, route_document>>

\* mutant: a failure of the matcher is answered with the no-match document
updated_route_of_swallowing(ended, raised_error, matched_traffic) ==
  IF ended = "returned" /\ matched_traffic # <<>>
  THEN [kind |-> "dict",
        matched_traffic |-> matched_traffic,
        route_metrics |->
          [matched_segments |-> Len(matched_traffic),
           avg_speed_kmh |-> PyDiv(RInt(Sum(Speeds(matched_traffic))),
                                   RInt(Len(matched_traffic)))]]
  ELSE [kind |-> "dict", matched_traffic |-> <<>>, route_metrics |-> None]

\* what calculate_updated_route makes of the matcher's outcome (the lengths of
\* the links, and the sums over them, are not carried)
updated_route_of(ended, raised_error, matched_traffic) ==
  IF ended = "raised" THEN Raised(raised_error)
  ELSE IF matched_traffic # <<>>
  THEN [kind |-> "dict",
        matched_traffic |-> matched_traffic,
        route_metrics |->
          [matched_segments |-> Len(matched_traffic),
           avg_speed_kmh |-> PyDiv(RInt(Sum(Speeds(matched_traffic))),
                                   RInt(Len(matched_traffic)))]]
  ELSE [kind |-> "dict", matched_traffic |-> <<>>, route_metrics |-> None]

\* calculate_updated_route, which made the invocation, ends
CalculateUpdatedRoute ==
  /\ pc \in {"returned", "raised"}
  /\ called = "nothing"
  /\ called' = "calculate_updated_route"
  /\ returned' = updated_route_of(pc, error, matched_data)
  /\ UNCHANGED <<result, route_roads, route_specific_traffic, matchVars,
                 requestVars, route_document>>

NextMatch ==
  \/ MatchConnectFails
  \/ MatchBegin
  \/ MatchItem
  \/ MatchReturn
  \/ CalculateUpdatedRoute

SpecMatch == InitMatch /\ [][NextMatch]_vars

(***************************************************************************)
(* api.py: _extract_route_roads on arbitrary route documents               *)
(*                                                                         *)
(* A route document is a JSON value.  Values are tagged records: None is   *)
(* null, Num a non-zero number, Str a string, List a list; a mapping has   *)
(* kind "dict" and, for each key the function reads, a flag telling        *)
(* whether the key is present and the value under it.                      *)
(***************************************************************************)
Num == [kind |-> "number"]
Str(s) == [kind |-> "str", value |-> s]
List(items) == [kind |-> "list", items |-> items]
Step(has_name, name) == [kind |-> "dict", has_name |-> has_name, name |-> name]
LegDict(has_steps, steps) ==
  [kind |-> "dict", has_steps |-> has_steps, steps |-> steps]
RouteDict(has_legs, legs) ==
  [kind |-> "dict", has_legs |-> has_legs, legs |-> legs]
ResultItem(has_routes, routes) ==
  [kind |-> "dict", has_routes |-> has_routes, routes |-> routes]
Document(has_legs, legs, has_result, res) ==
  [kind |-> "dict", has_legs |-> has_legs, legs |-> legs,
   has_result |-> has_result, result |-> res]

\* Python truth value of a value
truthy(v) ==
  CASE v.kind = "none" -> FALSE
    [] v.kind = "number" -> TRUE
    [] v.kind = "str" -> v.value # <<>>
    [] v.kind = "list" -> v.items # <<>>

\* whether 'for x in v' can start, and what it then yields (a string
\* yields its characters)
iterable(v) == v.kind \in {"list", "str"}
elements(v) ==
  IF v.kind = "list" THEN v.items
  ELSE [i \in 1..Len(v.value) |-> Str(<<v.value[i]>>)]

\* whether set.add accepts the value
hashable(v) == v.kind # "list"

\* dict.get(key, default)
get(present, value, default) == IF present THEN value ELSE default

\* road_names.add(step_name); the names are kept in the order they were
\* first added (the order list(road_names) gives is unspecified)
add(road_names, step_name) ==
  IF \E i \in 1..Len(road_names) : road_names[i] = step_name
  THEN road_names
  ELSE Append(road_names, step_name)

\* one round of 'for step in leg['steps']'
add_step_name(acc, step) ==
  IF step.kind # "dict" THEN acc
  ELSE LET step_name == get(step.has_name, step.name, Str(<<>>))
       IN IF truthy(step_name) /\ step_name # Str(Unnamed)
             /\ step_name # Str(<<>>)
          THEN IF hashable(step_name)
               THEN [acc EXCEPT !.names = add(@, step_name)]
               ELSE Raised("TypeError")
          ELSE acc

RECURSIVE add_step_names(_, _)
add_step_names(acc, steps) ==
  IF acc.kind = "raised" \/ steps = <<>> THEN acc
  ELSE add_step_names(add_step_name(acc, Head(steps)), Tail(steps))

\* one round of 'for leg in legs'
add_leg_names(acc, leg) ==
  IF leg.kind = "dict" /\ leg.has_steps
  THEN IF iterable(leg.steps)
       THEN add_step_names(acc, elements(leg.steps))
       ELSE Raised("TypeError")
  ELSE acc

RECURSIVE add_legs_names(_, _)
add_legs_names(acc, legs) ==
  IF acc.kind = "raised" \/ legs = <<>> THEN acc
  ELSE add_legs_names(add_leg_names(acc, Head(legs)), Tail(legs))

\* 'for leg in legs: ...'
walk_legs(acc, legs) ==
  IF acc.kind = "raised" THEN acc
  ELSE IF iterable(legs) THEN add_legs_names(acc, elements(legs))
  ELSE Raised("TypeError")

\* the route reached through result[0].routes[0], None when there is none
nested_route(route_data) ==
  IF ~route_data.has_result THEN None
  ELSE LET results == route_data.result
       IN IF ~(results.kind = "list" /\ Len(results.items) > 0) THEN None
          ELSE LET result_item == results.items[1]
               IN IF result_item.kind # "dict" THEN None
                  ELSE LET routes == get(result_item.has_routes,
                                         result_item.routes, List(<<>>))
                       IN IF ~(routes.kind = "list" /\ Len(routes.items) > 0)
                          THEN None
                          ELSE IF routes.items[1].kind # "dict" THEN None
                          ELSE routes.items[1]

extract_route_roads_document(route_data) ==
  IF route_data.kind # "dict" THEN [kind |-> "list", names |-> <<>>]
  ELSE LET legs == get(route_data.has_legs, route_data.legs, List(<<>>))
           direct == IF truthy(legs)
                     THEN walk_legs([kind |-> "list", names |-> <<>>], legs)
                     ELSE [kind |-> "list", names |-> <<>>]
           route == nested_route(route_data)
       IN IF route = None THEN direct
          ELSE walk_legs(direct, get(route.has_legs, route.legs, List(<<>>)))

(***************************************************************************)
(* Route documents given to _extract_route_roads                           *)
(***************************************************************************)
RoadB == Str(<<"b">>)
RoadC == Str(<<"c">>)
NameValues == {None, Str(<<>>), Str(Unnamed), RoadB, RoadC, List(<<RoadB>>)}
StepValues ==
  {Num, Step(FALSE, None)} \cup {Step(TRUE, name) : name \in NameValues}
StepsValues ==
  {None, Num, Str(<<"b">>)}
    \cup {List(steps) : steps \in SeqsUpTo(StepValues, MaxSteps)}
LegValues ==
  {Num, LegDict(FALSE, None)}
    \cup {LegDict(TRUE, steps) : steps \in StepsValues}
LegsValues ==
  {None, Num, Str(<<"b">>), List(<<>>)}
    \cup {List(<<leg>>) : leg \in LegValues}
    \cup {List(<<LegDict(TRUE, List(<<Step(TRUE, RoadB)>>)), leg>>) :
            leg \in {LegDict(TRUE, List(<<Step(TRUE, name)>>)) :
                       name \in NameValues}}
NestedLegs ==
  {None, Num, List(<<>>),
   List(<<LegDict(TRUE, List(<<Step(TRUE, RoadB)>>))>>),
   List(<<LegDict(TRUE, List(<<Step(TRUE, RoadC), Step(TRUE, Str(Unnamed))>>))>>),
   List(<<LegDict(TRUE, None)>>)}
ResultValues ==
  {None, List(<<>>), List(<<Num>>),
   List(<<ResultItem(FALSE, None)>>),
   List(<<ResultItem(TRUE, None)>>),
   List(<<ResultItem(TRUE, List(<<>>))>>),
   List(<<ResultItem(TRUE, List(<<Num>>))>>),
   List(<<ResultItem(TRUE, List(<<RouteDict(FALSE, None)>>))>>)}
    \cup {List(<<ResultItem(TRUE, List(<<RouteDict(TRUE, legs)>>))>>) :
            legs \in NestedLegs}
RouteDocuments ==
  {None, Num, Str(<<"b">>), List(<<>>)}
    \cup {Document(FALSE, None, FALSE, None)}
    \cup {Document(TRUE, legs, FALSE, None) : legs \in LegsValues}
    \cup {Document(FALSE, None, TRUE, res) : res \in ResultValues}
    \cup {Document(TRUE, legs, TRUE, res) :
            legs \in LegsValues, res \in ResultValues}

InitRoads ==
  /\ result = None
  /\ called = "nothing"
  /\ returned = Unset
  /\ route_roads = {}
  /\ route_specific_traffic = <<>>
  /\ MatcherIdle
  /\ RequestIdle
  /\ route_document \in RouteDocuments

ExtractRouteRoads ==
  /\ called = "nothing"
  /\ called' = "extract_route_roads"
  /\ returned' = extract_route_roads_document(route_document)
  /\ UNCHANGED <<result, route_roads, route_specific_traffic, matchVars,
                 requestVars, route_document>>

NextRoads == ExtractRouteRoads

SpecRoads == InitRoads /\ [][NextRoads]_vars

(***************************************************************************)
(* The waypoint-based request surfaces: POST /analyze-route-simple         *)
(* (api.py), analyze_route and get_route_comparison (mcp_api.py over       *)
(* stdio, mcp_http_server.py over HTTP; the two files hold the same code). *)
(*                                                                         *)
(* One worker handles the request end to end.  It suspends twice: in       *)
(* requests.get inside get_route_from_osrm and in check_route_traffic,     *)
(* which connects to the store (psycopg2.connect).  Neither call is given  *)
(* a timeout, so the handler goes on only when the service answers.        *)
(***************************************************************************)
Waypoints == [latitude : BOOLEAN, longitude : BOOLEAN]
Complete == [latitude |-> TRUE, longitude |-> TRUE]

WaypointTools ==
  { <<"http", "analyze_route_simple">>,
    <<"mcp_stdio", "analyze_route">>,
    <<"mcp_http", "analyze_route">> }

Requests ==
  {[surface |-> "http", tool |-> "analyze_route_simple",
    has_waypoints |-> FALSE, waypoints |-> <<>>]}
    \cup {[surface |-> st[1], tool |-> st[2],
           has_waypoints |-> TRUE, waypoints |-> w] :
            st \in WaypointTools, w \in SeqsUpTo(Waypoints, MaxWaypoints)}
    \cup {[surface |-> s, tool |-> "get_route_comparison",
           has_waypoints |-> TRUE, waypoints |-> <<Complete, Complete>>] :
            s \in {"mcp_stdio", "mcp_http"}}

\* what monitor.check_route_traffic gives back: None, an analysis result,
\* or the store's connection error
AnalysisOutcomes ==
  {None, Raised("OperationalError")}
    \cup { [route_data |-> [duration |-> m[1], distance |-> m[2],
                            legs |-> <<Leg(<<<<"b">>>>)>>, nested |-> NoNested],
            matched_traffic |-> mt] :
             m \in AdviceMetrics,
             mt \in {<<>>, <<OffRoute>>}
                      \cup {<<OnRoute(speed)>> : speed \in AdviceSpeeds} }

\* an error response; http_status is 0 for the MCP tools, which return a
\* dict and no HTTP status
ErrorResponse(http_status, message) ==
  [kind |-> "response", status |-> "error",
   http_status |-> http_status, error |-> message]

lacks_coordinate(wp) == ~wp.longitude \/ ~wp.latitude

\* api.py, analyze_route_simple up to the call of the routing service:
\* the early response, or None when the handler goes on
analyze_route_simple_validation(req) ==
  IF ~req.has_waypoints
  THEN ErrorResponse(400, "waypoints array is required")
  ELSE IF Len(req.waypoints) < 2
  THEN ErrorResponse(400, "At least 2 waypoints are required")
  \* _convert_waypoints_to_route_data reads wp['longitude'], wp['latitude']:
  \* KeyError, caught by the handler's except
  ELSE IF \E i \in 1..Len(req.waypoints) : lacks_coordinate(req.waypoints[i])
  THEN ErrorResponse(500, "Internal server error")
  ELSE None

\* mcp_api.py / mcp_http_server.py, analyze_route up to the routing call
analyze_route_validation(waypoints) ==
  IF Len(waypoints) < 2
  THEN ErrorResponse(0, "At least 2 waypoints are required")
  ELSE IF \E i \in 1..Len(waypoints) : lacks_coordinate(waypoints[i])
  THEN ErrorResponse(0, "Waypoint missing latitude or longitude")
  ELSE None

validation_of(req) ==
  IF req.tool = "analyze_route_simple"
  THEN analyze_route_simple_validation(req)
  ELSE analyze_route_validation(req.waypoints)

\* 'if not osrm_route'
no_route_response(req) ==
  ErrorResponse(IF req.surface = "http" THEN 400 ELSE 0,
                "Could not calculate route between waypoints")

\* api.py, analyze_route_simple after check_route_traffic
analyze_route_simple_response(res) ==
  IF res = Raised("OperationalError")
  THEN ErrorResponse(500, "Internal server error")
  ELSE IF res = None
  THEN ErrorResponse(500, "Failed to analyze route traffic")
  ELSE LET simple == extract_traffic_adjusted_route_simple(res)
           original == generate_traffic_adjusted_route_original_format(res)
       IN IF simple.kind = "raised" \/ original.kind = "raised"
          THEN ErrorResponse(500, "Internal server error")
          ELSE [kind |-> "response", status |-> "success", http_status |-> 200,
                original_duration_seconds |-> res.route_data.duration,
                original_distance_meters |-> Metres(res.route_data),
                traffic_segments_found |-> Len(res.matched_traffic),
                traffic_adjusted_route |-> simple,
                traffic_adjusted_route_original_format |-> original]

\* mutant: the tool answers with the simplified aggregate
analyze_route_response_simplified(res) ==
  IF res = Raised("OperationalError") THEN ErrorResponse(0, "Internal error")
  ELSE IF res = None
  THEN ErrorResponse(0, "Failed to analyze route traffic")
  ELSE LET route_info == res.route_data
           traffic_adjusted == extract_traffic_adjusted_route_simple(res)
           original_speed_kmh ==
             PyDiv(PyDiv(Metres(route_info), RInt(1000)),
                   PyDiv(RInt(route_info.duration), RInt(3600)))
       IN IF traffic_adjusted.kind = "raised" \/ IsErr(original_speed_kmh)
          THEN ErrorResponse(0, "Internal error")
          ELSE [kind |-> "response", status |-> "success", http_status |-> 0,
                original_duration_seconds |-> route_info.duration,
                original_distance_meters |-> Metres(route_info),
                original_speed_kmh |-> original_speed_kmh,
                route_roads_detected |-> extract_route_roads(route_info),
                traffic_segments_found |-> Len(res.matched_traffic),
                traffic_adjusted_route |-> traffic_adjusted]

\* mcp_api.py / mcp_http_server.py, analyze_route after check_route_traffic
analyze_route_response(res) ==
  IF res = Raised("OperationalError") THEN ErrorResponse(0, "Internal error")
  ELSE IF res = None
  THEN ErrorResponse(0, "Failed to analyze route traffic")
  ELSE LET route_info == res.route_data
           traffic_adjusted == extract_traffic_adjusted_route(res)
           original_speed_kmh ==
             PyDiv(PyDiv(Metres(route_info), RInt(1000)),
                   PyDiv(RInt(route_info.duration), RInt(3600)))
       IN IF traffic_adjusted.kind = "raised" \/ IsErr(original_speed_kmh)
          THEN ErrorResponse(0, "Internal error")
          ELSE [kind |-> "response", status |-> "success", http_status |-> 0,
                original_duration_seconds |-> route_info.duration,
                original_distance_meters |-> Metres(route_info),
                original_speed_kmh |-> original_speed_kmh,
                route_roads_detected |-> extract_route_roads(route_info),
                traffic_segments_found |-> Len(res.matched_traffic),
                \* the aggregate of a truthy result is a non-empty dict
                traffic_adjusted_route |-> traffic_adjusted]

\* traffic_data.get(key, default) on the aggregate
get_field(traffic_data, key, default) ==
  IF key \in DOMAIN traffic_data THEN traffic_data[key] ELSE default

\* get_route_comparison, given what analyze_route returned
get_route_comparison_response(analysis) ==
  IF analysis.status = "error" THEN analysis
  ELSE LET traffic_data == analysis.traffic_adjusted_route
       IN [kind |-> "response", status |-> "success", http_status |-> 0,
           distance_km |-> PyDiv(analysis.original_distance_meters, RInt(1000)),
           estimated_duration_minutes |->
             PyDiv(RInt(analysis.original_duration_seconds), RInt(60)),
           traffic_adjusted_duration_minutes |->
             PyDiv(get_field(traffic_data, "duration_seconds", RZero), RInt(60)),
           time_difference_minutes |->
             PyDiv(get_field(traffic_data, "time_difference_seconds", RZero),
                   RInt(60)),
           traffic_condition |->
             get_field(traffic_data, "traffic_condition", "unknown"),
           average_speed_kmh |->
             get_field(traffic_data, "average_speed_kmh",
                       analysis.original_speed_kmh),
           roads_on_route |-> analysis.route_roads_detected]

response_of(req, res) ==
  IF req.tool = "analyze_route_simple" THEN analyze_route_simple_response(res)
  ELSE IF req.tool = "analyze_route" THEN analyze_route_response(res)
  ELSE get_route_comparison_response(analyze_route_response(res))

InitRequest ==
  /\ result = None
  /\ called = "nothing"
  /\ returned = Unset
  /\ route_roads = {}
  /\ route_specific_traffic = <<>>
  /\ MatcherIdle
  /\ RequestIdle
  /\ route_document = None

\* a request comes in
ReceiveRequest ==
  /\ rpc = "idle"
  /\ request' \in Requests
  /\ rpc' = "received"
  /\ UNCHANGED <<contacted, osrm_route, response, apiVars, matchVars,
                 route_document>>

\* the handler up to get_route_from_osrm: an early response, or the call
ValidateWaypoints ==
  /\ rpc = "received"
  /\ LET early == validation_of(request)
     IN IF early # None
        THEN /\ response' = early
             /\ rpc' = "done"
             /\ UNCHANGED contacted
        ELSE /\ rpc' = "waiting_osrm"
             /\ contacted' = contacted \cup {"osrm"}
             /\ UNCHANGED response
  /\ UNCHANGED <<request, osrm_route, apiVars, matchVars, route_document>>

\* requests.get returns or raises: get_route_from_osrm returns the route,
\* or None for any exception
OsrmAnswers ==
  /\ rpc = "waiting_osrm"
  /\ osrm_route' \in {"null", "route"}
  /\ rpc' = "routed"
  /\ UNCHANGED <<request, contacted, response, apiVars, matchVars,
                 route_document>>

\* 'if not osrm_route', then the call of check_route_traffic
CheckRoute ==
  /\ rpc = "routed"
  /\ IF osrm_route = "null"
     THEN /\ response' = no_route_response(request)
          /\ rpc' = "done"
          /\ UNCHANGED contacted
     ELSE /\ rpc' = "waiting_analysis"
          /\ contacted' = contacted \cup {"store"}
          /\ UNCHANGED response
  /\ UNCHANGED <<request, osrm_route, apiVars, matchVars, route_document>>

\* check_route_traffic returns or raises
AnalysisReturns ==
  /\ rpc = "waiting_analysis"
  /\ result' \in AnalysisOutcomes
  /\ rpc' = "analysed"
  /\ UNCHANGED <<request, contacted, osrm_route, response, called, returned,
                 route_roads, route_specific_traffic, matchVars,
                 route_document>>

\* the rest of the handler
Respond ==
  /\ rpc = "analysed"
  /\ response' = response_of(request, result)
  /\ rpc' = "done"
  /\ UNCHANGED <<request, contacted, osrm_route, apiVars, matchVars,
                 route_document>>

\* the steps the worker takes by itself
WorkerStep == ValidateWaypoints \/ CheckRoute \/ Respond

NextRequest ==
  \/ ReceiveRequest
  \/ ValidateWaypoints
  \/ OsrmAnswers
  \/ CheckRoute
  \/ AnalysisReturns
  \/ Respond

SpecRequest == InitRequest /\ [][NextRequest]_vars

(***************************************************************************)
(* Properties of the analysis functions (specification Spec)               *)
(***************************************************************************)
Extracted ==
  called = "extract_traffic_adjusted_route" /\ returned.kind = "dict"

OriginalFormatted ==
  called = "generate_traffic_adjusted_route_original_format" /\ returned.kind = "dict"

Simplified ==
  called = "extract_traffic_adjusted_route_simple" /\ returned.kind = "dict"

AllSpeedsZero(segs) == \A i \in 1..Len(segs) : segs[i].current_speed = 0

\* C1: whenever no segment is relevant, the aggregate that
\* _extract_traffic_adjusted_route returns has time difference 0 (seconds and
\* percent) and the original duration, whatever the matched segments are.
C1_NoRelevantKeepsOriginal ==
  (Extracted /\ route_specific_traffic = <<>>) =>
    /\ returned.time_difference_seconds = RZero
    /\ returned.time_difference_percent = RZero
    /\ returned.duration_seconds = RInt(result.route_data.duration)

C1_Witness ==
  /\ Extracted
  /\ route_specific_traffic = <<>>
  /\ Len(result.matched_traffic) >= 2
  /\ \E i \in 1..Len(result.matched_traffic) :
       result.matched_traffic[i].current_speed > 0
  /\ returned.duration_seconds = RInt(600)

\* C2: when the relevant set is non-empty and every relevant speed is 0, both
\* aggregates return (no division by the zero mean is performed) and their
\* adjusted duration is the original duration.
C2_ZeroSpeedFallsBack ==
  (result # None /\ route_specific_traffic # <<>>
     /\ AllSpeedsZero(route_specific_traffic)) =>
    /\ called = "extract_traffic_adjusted_route" =>
         /\ returned.kind = "dict"
         /\ returned.duration_seconds = RInt(result.route_data.duration)
    /\ called = "generate_traffic_adjusted_route_original_format" =>
         /\ returned.kind = "dict"
         /\ returned.duration = RInt(result.route_data.duration)
         /\ returned.traffic_metadata.traffic_adjusted_duration
              = RInt(result.route_data.duration)

C2_Witness ==
  /\ OriginalFormatted
  /\ Len(route_specific_traffic) >= 2
  /\ AllSpeedsZero(route_specific_traffic)
  /\ returned.traffic_metadata.traffic_adjusted_duration = RInt(600)

\* the closed forms of the aggregate, over the integers of the input
ExpectedAverage(segs) == Rat(Sum(Speeds(segs)), Len(segs))
ExpectedAdjusted(route_data, segs) ==
  Rat(route_data.distance * 9 * Len(segs), 25 * Sum(Speeds(segs)))
ExpectedPercent(route_data, delta) ==
  IF route_data.duration > 0
  THEN Rat(delta.n * 100, delta.d * route_data.duration)
  ELSE RZero

Scenario ==
  /\ result # None
  /\ result.route_data.duration = 600
  /\ result.route_data.distance = 97037
  /\ Speeds(route_specific_traffic) = <<30, 50>>

\* C3: with a non-empty relevant set of mean speed > 0 the aggregate has
\* average = mean of the relevant speeds, adjusted = (metres/1000/average)*3600,
\* delta = adjusted - original, percent = delta/original*100 (0 when the
\* original is 0); 600 s, 9703.7 m and speeds [30, 50] give average 40, a delta
\* of about 273.3 s, about 45.6 % and the condition heavy_delay.
C3_AggregateFormulas ==
  /\ (Extracted /\ route_specific_traffic # <<>>
        /\ Sum(Speeds(route_specific_traffic)) > 0) =>
       LET adjusted == ExpectedAdjusted(result.route_data, route_specific_traffic)
           delta == RSub(adjusted, RInt(result.route_data.duration))
       IN /\ returned.average_speed_kmh = ExpectedAverage(route_specific_traffic)
          /\ returned.duration_seconds = adjusted
          /\ returned.time_difference_seconds = delta
          /\ returned.time_difference_percent
               = ExpectedPercent(result.route_data, delta)
  /\ (Extracted /\ Scenario) =>
       /\ returned.average_speed_kmh = RInt(40)
       /\ returned.time_difference_seconds = Rat(273333, 1000)
       /\ RLess(Rat(4555, 100), returned.time_difference_percent)
       /\ RLess(returned.time_difference_percent, Rat(4565, 100))
  /\ (Simplified /\ Scenario) => returned.traffic_condition = "heavy_delay"

C3_Witness ==
  /\ Extracted
  /\ Scenario
  /\ returned.duration_seconds = Rat(873333, 1000)

\* C4: _extract_traffic_adjusted_route never raises on a well-formed input
\* (duration >= 0, distance >= 0, speeds >= 0, any relevant set).
C4_NeverRaises ==
  called = "extract_traffic_adjusted_route" => returned.kind # "raised"

C4_Witness ==
  /\ called = "extract_traffic_adjusted_route"
  /\ returned.kind = "raised"
  /\ result.route_data.duration = 0
  /\ route_specific_traffic = <<>>

FilterRan ==
  /\ result # None
  /\ called \in {"extract_traffic_adjusted_route",
                 "generate_traffic_adjusted_route_original_format"}

\* C5: with an empty route-road set the filter (in both functions) leaves
\* exactly the matched sequence: same segments, same order, none added or
\* dropped.
C5_EmptyRoadSetPassesAll ==
  (FilterRan /\ route_roads = {}) =>
    route_specific_traffic = result.matched_traffic

C5_Witness ==
  /\ FilterRan
  /\ route_roads = {}
  /\ Len(result.matched_traffic) = MaxSegs
  /\ result.matched_traffic[1].road_name # result.matched_traffic[2].road_name
  /\ route_specific_traffic = result.matched_traffic

\* b contains a: some stretch b[i+1..j] of b is a
Contains(b, a) == \E i, j \in 0..Len(b) : SubSeq(b, i + 1, j) = a

Qualifies(seg, roads) ==
  \E r \in roads :
    \/ Contains(lower(seg.road_name), lower(r))
    \/ Contains(lower(r), lower(seg.road_name))

\* the k-th smallest element of a set of positions
Kth(I, k) == CHOOSE i \in I : Cardinality({j \in I : j <= i}) = k

\* sub is the subsequence of s at the positions I, in the order of s
IsSubsequenceAt(sub, s, I) ==
  /\ Len(sub) = Cardinality(I)
  /\ \A k \in 1..Len(sub) : sub[k] = s[Kth(I, k)]

\* C6: with a non-empty route-road set the filter returns, in input order,
\* exactly the matched segments whose lower-cased road name contains, or is
\* contained in, the lower-cased form of some route road name.
C6_FilterIsTheQualifyingSubsequence ==
  (FilterRan /\ route_roads # {}) =>
    IsSubsequenceAt(route_specific_traffic, result.matched_traffic,
                    {i \in 1..Len(result.matched_traffic) :
                       Qualifies(result.matched_traffic[i], route_roads)})

\* a segment kept only because its name lies inside a longer route road name,
\* next to a segment that is dropped
C6_Witness ==
  /\ FilterRan
  /\ route_roads = {<<"A", "B", "S">>}
  /\ Len(result.matched_traffic) = 2
  /\ result.matched_traffic[1].road_name = <<Eszett>>
  /\ result.matched_traffic[2].road_name = <<"A", "b">>
  /\ route_specific_traffic = <<result.matched_traffic[2]>>

UpperSegments(segs) ==
  [i \in 1..Len(segs) |-> [segs[i] EXCEPT !.road_name = upper(segs[i].road_name)]]

UpperRoads(roads) == {upper(r) : r \in roads}

RelevantPositions(segs, roads) ==
  {i \in 1..Len(segs) : IsRouteSpecific(segs[i], roads)}

\* C7: upper-casing every segment road name and every route road name leaves
\* the set of relevant positions unchanged.
C7_CaseInvariant ==
  (called = "extract_traffic_adjusted_route" /\ result # None) =>
    IsSubsequenceAt(route_specific_traffic, result.matched_traffic,
                    RelevantPositions(UpperSegments(result.matched_traffic),
                                      UpperRoads(route_roads)))

\* the percentage the condition is computed from, as integers
Percent == extract_traffic_adjusted_route(result).time_difference_percent

\* C9: the simplified condition is heavy_delay iff percent > 20,
\* moderate_delay iff 10 < percent <= 20, faster_than_expected iff
\* percent < -10, normal otherwise; exactly 20 is moderate_delay, exactly 10
\* and exactly -10 are normal.
C9_ConditionThresholds ==
  Simplified =>
    LET c == returned.traffic_condition
        n == Percent.n
        d == Percent.d
    IN /\ c = "heavy_delay" <=> n > 20 * d
       /\ c = "moderate_delay" <=> (n > 10 * d /\ n <= 20 * d)
       /\ c = "faster_than_expected" <=> n < (-10) * d
       /\ c = "normal" <=> (n >= (-10) * d /\ n <= 10 * d)
       /\ Percent = RInt(20) => c = "moderate_delay"
       /\ Percent = RInt(10) => c = "normal"
       /\ Percent = RInt(-10) => c = "normal"

C9_Witness ==
  /\ Simplified
  /\ Percent = RInt(20)
  /\ returned.traffic_condition = "moderate_delay"

\* C10: the coverage of the aggregate is no_relevant_data when the relevant
\* set is empty, partial when it is non-empty and smaller than the matched
\* list, good otherwise; no other value occurs.
C10_Coverage ==
  Extracted =>
    /\ returned.traffic_coverage \in {"no_relevant_data", "partial", "good"}
    /\ route_specific_traffic = <<>> =>
         returned.traffic_coverage = "no_relevant_data"
    /\ (route_specific_traffic # <<>>
          /\ Len(route_specific_traffic) < Len(result.matched_traffic)) =>
         returned.traffic_coverage = "partial"
    /\ (route_specific_traffic # <<>>
          /\ Len(route_specific_traffic) >= Len(result.matched_traffic)) =>
         returned.traffic_coverage = "good"

C10_Witness ==
  /\ Extracted
  /\ Len(route_specific_traffic) = 1
  /\ Len(result.matched_traffic) = 2
  /\ returned.traffic_coverage = "partial"

Recommended ==
  called = "generate_recommendations" /\ returned.kind = "list"

TextsOf(items) == [i \in 1..Len(items) |-> items[i].text]
Occurrences(texts, wanted) == Cardinality({i \in 1..Len(texts) : texts[i] \in wanted})

\* C11: every aggregate returned for a route with no relevant segment, the
\* full one and the simplified one alike, carries the coverage marker
\* no_relevant_data together with the planned duration.
C11_NoRelevantDataIsMarked ==
  ((Extracted \/ Simplified) /\ route_specific_traffic = <<>>) =>
    /\ "traffic_coverage" \in DOMAIN returned
    /\ returned.traffic_coverage = "no_relevant_data"
    /\ returned.duration_seconds = RInt(result.route_data.duration)

\* the simplified aggregate of a route with no relevant segment has no marker
\* and equals the simplified aggregate of a result with a relevant segment
C11_Witness ==
  /\ Simplified
  /\ result.matched_traffic # <<>>
  /\ route_specific_traffic = <<>>
  /\ "traffic_coverage" \notin DOMAIN returned
  /\ returned.traffic_condition = "normal"
  /\ \E other \in AdviceResults : extract_traffic_adjusted_route_simple(other) = returned

NoDataTexts ==
  << "No traffic data available for the specific roads on this route",
     "Route uses local roads that may not be monitored by traffic systems",
     "Use original route time estimate" >>

\* C12: when no segment was matched at all, the coverage is no_relevant_data
\* and the list that _generate_recommendations returns is the no-data advisory
\* alone: no delay advisory, flow note or coverage note follows it.
C12_ZeroMatchedOnlyNoData ==
  (Recommended /\ result # None /\ result.matched_traffic = <<>>) =>
    /\ extract_traffic_adjusted_route(result).traffic_coverage = "no_relevant_data"
    /\ TextsOf(returned.items) = NoDataTexts

C12_Witness ==
  /\ Recommended
  /\ result # None
  /\ result.matched_traffic = <<>>
  /\ Len(returned.items) = 3

\* C13: _generate_recommendations returns a list, and a non-empty one, for
\* every analysis result, and the list is the same whenever the result is.
C13_NeverEmpty ==
  called = "generate_recommendations" =>
    /\ returned.kind = "list"
    /\ returned.items # <<>>
    /\ returned = generate_recommendations(result)

C13_Witness ==
  /\ called = "generate_recommendations"
  /\ result # None
  /\ result.route_data.duration = 0
  /\ route_specific_traffic = <<>>
  /\ returned = Raised("ZeroDivisionError")

ExpectText == "Expect {:.1f} minutes longer than planned due to traffic"
ConsiderText == "Consider departing earlier or finding an alternative route"
EarlierText == "Traffic is flowing well - you may arrive {:.1f} minutes earlier"
NormalText == "Current traffic conditions are close to normal expectations"

\* the time difference in minutes: adjusted duration minus planned, over 60
TimeDeltaMinutes ==
  LET relevant == route_specific_traffic
      adjusted == IF AllSpeedsZero(relevant) THEN RInt(result.route_data.duration)
                  ELSE Rat(result.route_data.distance * 36 * Len(relevant),
                           100 * Sum(Speeds(relevant)))
  IN PyDiv(RSub(adjusted, RInt(result.route_data.duration)), RInt(60))

\* C14: with a non-empty relevant set the list starts with exactly one of the
\* three time advisories: 'expect longer' (followed by 'consider departing
\* earlier') iff the difference exceeds 5 minutes, 'arrive earlier' iff it is
\* below -2 minutes, 'close to normal' iff it lies in [-2, 5].
C14_DelayAdviceThresholds ==
  (Recommended /\ route_specific_traffic # <<>>) =>
    LET texts == TextsOf(returned.items)
        minutes == TimeDeltaMinutes
    IN /\ texts[1] = ExpectText <=> RGreater(minutes, RInt(5))
       /\ texts[1] = ExpectText => texts[2] = ConsiderText
       /\ texts[1] = EarlierText <=> RLess(minutes, RInt(-2))
       /\ texts[1] = NormalText <=>
            (~RGreater(minutes, RInt(5)) /\ ~RLess(minutes, RInt(-2)))
       /\ Occurrences(texts, {ExpectText, EarlierText, NormalText}) = 1
       /\ Occurrences(texts, {ConsiderText}) = IF texts[1] = ExpectText THEN 1 ELSE 0

C14_Witness ==
  /\ Recommended
  /\ route_specific_traffic # <<>>
  /\ TimeDeltaMinutes = RInt(5)
  /\ returned.items[1].text = NormalText

HeavyText == "Heavy traffic detected on monitored segments"
ModerateText == "Moderate traffic on monitored segments"
GoodText == "Good traffic flow on monitored segments"
CoverageText == "Limited coverage: only {} relevant traffic segments found"

\* C15: with a non-empty relevant set the list holds exactly one flow note,
\* heavy iff the mean speed is below 20, moderate iff it is in [20, 30), good
\* iff it is at least 30; and it holds the coverage note iff ten times the
\* relevant segments are fewer than the matched segments.
C15_FlowAndCoverageNotes ==
  (Recommended /\ route_specific_traffic # <<>>) =>
    LET texts == TextsOf(returned.items)
        total == Sum(Speeds(route_specific_traffic))
        count == Len(route_specific_traffic)
    IN /\ Occurrences(texts, {HeavyText, ModerateText, GoodText}) = 1
       /\ Occurrences(texts, {HeavyText}) = 1 <=> total < 20 * count
       /\ Occurrences(texts, {ModerateText}) = 1 <=>
            (20 * count <= total /\ total < 30 * count)
       /\ Occurrences(texts, {GoodText}) = 1 <=> total >= 30 * count
       /\ Occurrences(texts, {CoverageText}) = 1 <=>
            10 * count < Len(result.matched_traffic)
       /\ Occurrences(texts, {CoverageText}) <= 1

C15_Witness ==
  /\ Recommended
  /\ Len(route_specific_traffic) = 1
  /\ route_specific_traffic[1].current_speed = 20
  /\ Len(result.matched_traffic) = 11
  /\ returned.items[Len(returned.items)] = LimitedCoverage(1)

C27_ViewsAgree ==
  OriginalFormatted =>
    LET aggregate == extract_traffic_adjusted_route(result)
        metadata == returned.traffic_metadata
    IN /\ aggregate.kind = "dict"
       /\ metadata.traffic_adjusted_duration = aggregate.duration_seconds
       /\ metadata.time_difference_seconds = aggregate.time_difference_seconds
       /\ metadata.time_difference_percent = aggregate.time_difference_percent
       /\ metadata.traffic_segments_used = aggregate.traffic_segments
       /\ metadata.average_traffic_speed_kmh = aggregate.average_speed_kmh

\* no segment is relevant: one view reports the average speed 0, the other the
\* speed of the planned route
C27_Witness ==
  /\ OriginalFormatted
  /\ result.matched_traffic # <<>>
  /\ route_specific_traffic = <<>>
  /\ result.route_data.duration = 600
  /\ returned.traffic_metadata.average_traffic_speed_kmh = RZero
  /\ extract_traffic_adjusted_route(result).kind = "dict"
  /\ extract_traffic_adjusted_route(result).average_speed_kmh # RZero

EmptyNamed(segs) == SelectSeq(segs, LAMBDA match : match.road_name = <<>>)

\* C28: when the route-road set is not empty, every matched segment with an
\* empty road name is relevant: the filter keeps all of them, and the
\* aggregate counts them and averages over them.
C28_EmptyNameAlwaysRelevant ==
  (FilterRan /\ route_roads # {}) =>
    /\ EmptyNamed(route_specific_traffic) = EmptyNamed(result.matched_traffic)
    /\ (Extracted /\ EmptyNamed(result.matched_traffic) # <<>>) =>
         /\ returned.traffic_coverage # "no_relevant_data"
         /\ returned.traffic_segments >= Len(EmptyNamed(result.matched_traffic))
         /\ returned.average_speed_kmh = average_speed(route_specific_traffic)

C28_Witness ==
  /\ Extracted
  /\ route_roads = {<<"s", "s">>}
  /\ Len(result.matched_traffic) = 2
  /\ result.matched_traffic[1].road_name = <<"A", "b">>
  /\ result.matched_traffic[2].road_name = <<>>
  /\ route_specific_traffic = <<result.matched_traffic[2]>>
  /\ returned.traffic_segments = 1

IsSortedByDistance(data) ==
  \A i, j \in 1..Len(data) :
    i < j => data[i].distance_to_route_m <= data[j].distance_to_route_m

AtDistance(data, d) == SelectSeq(data, LAMBDA x : x.distance_to_route_m = d)

Distances(data) == {data[i].distance_to_route_m : i \in 1..Len(data)}

\* a occurs in b as a subsequence (same relative order)
RECURSIVE IsSubsequence(_, _)
IsSubsequence(a, b) ==
  IF a = <<>> THEN TRUE
  ELSE IF b = <<>> THEN FALSE
  ELSE IF Head(a) = Head(b) THEN IsSubsequence(Tail(a), Tail(b))
  ELSE IsSubsequence(a, Tail(b))

Readings(data) == [i \in 1..Len(data) |-> data[i].api_data]

\* C8: the returned list is sorted non-decreasing by distance_to_route_m, and
\* segments of equal distance keep the order of their readings in the traffic
\* input: the loop appends in reading order, and the final sort keeps the
\* order within each distance.
C8_SortedByDistanceStable ==
  /\ [](pc = "returned" => IsSortedByDistance(matched_data))
  /\ [](pc = "loop" =>
          IsSubsequence(Readings(matched_data), SubSeq(traffic_items, 1, idx - 1)))
  /\ [][(pc = "loop" /\ pc' = "returned") =>
          /\ Len(matched_data') = Len(matched_data)
          /\ \A d \in Distances(matched_data) :
               AtDistance(matched_data', d) = AtDistance(matched_data, d)]_vars

\* readings L1 (10 m), L3 (10 m), L2 (5 m) come back as L2, L1, L3
C8_Witness ==
  /\ pc = "returned"
  /\ Len(traffic_items) = 3
  /\ traffic_items[1].linkId = "L1"
  /\ traffic_items[2].linkId = "L3"
  /\ traffic_items[3].linkId = "L2"
  /\ Len(matched_data) = 3
  /\ matched_data[1].link_id = "L2"
  /\ matched_data[2].link_id = "L1"
  /\ matched_data[3].link_id = "L3"

\* the loop has run to its end and the list was returned
LoopReturned == pc = "returned" /\ route_wkt # "none"

IsMatched(item) ==
  \E k \in 1..Len(matched_data) : matched_data[k].api_data = item

\* a reading that lies within the buffer of the route and parses
Matchable(item) ==
  /\ item.linkId \in DOMAIN NetworkRows
  /\ to_float(item.speed) # NotANumber

\* C16: the candidates moct_link, moct_link_table, links fall back on one
\* another: when the route line is valid, a reading whose link lies within the
\* buffer is in the returned list exactly when at least one candidate table
\* holds the network, whatever the candidates before it do (raise or find
\* nothing).
C16_SchemaFallback ==
  (LoopReturned /\ route_wkt = "LINESTRING") =>
    \A i \in 1..Len(traffic_items) :
      Matchable(traffic_items[i]) =>
        (IsMatched(traffic_items[i]) <=> \E t \in Tables : store[t] = "populated")

\* the first candidate's table does not exist, the second holds the link, and
\* the reading is dropped
C16_Witness ==
  /\ LoopReturned
  /\ route_wkt = "LINESTRING"
  /\ store["moct_link"] = "missing"
  /\ store["moct_link_table"] = "populated"
  /\ Len(traffic_items) = 1
  /\ Matchable(traffic_items[1])
  /\ Len(queries) = 3
  /\ matched_data = <<>>

\* the outcome of a reading processed alone on a fresh connection
AloneLookup(item) == try_queries(store, 1, item.linkId, route_wkt, FALSE)

MatchedAlone(item) ==
  /\ item.linkId # ""
  /\ to_float(item.speed) # NotANumber
  /\ AloneLookup(item).row # NoRow

\* C17: failures stay with their reading: the invocation returns, and each
\* reading is in the returned list exactly when it would be matched if it were
\* the only reading, whatever the readings before it ran into.
C17_FailuresAbsorbedLocally ==
  LoopReturned =>
    /\ \A j \in 1..Len(traffic_items) :
         IsMatched(traffic_items[j]) <=> MatchedAlone(traffic_items[j])
    /\ Len(matched_data) = Len(SelectSeq(traffic_items, MatchedAlone))

\* the lookup of the first reading raises on a later candidate, and the second
\* reading, which the first candidate holds, is dropped
C17_Witness ==
  /\ LoopReturned
  /\ Len(traffic_items) = 2
  /\ traffic_items[1].linkId # ""
  /\ ~MatchedAlone(traffic_items[1])
  /\ AloneLookup(traffic_items[1]).aborted
  /\ MatchedAlone(traffic_items[2])
  /\ store["moct_link"] = "populated"
  /\ matched_data = <<>>

\* C18: no query is ever executed for a reading without linkId, such a reading
\* raises nothing (an invocation that executed a query does not end with an
\* exception), and every matched segment carries the non-empty linkId of its
\* reading.
C18_MissingLinkIdSkipped ==
  /\ \A q \in 1..Len(queries) : queries[q].link_id # ""
  /\ \A k \in 1..Len(matched_data) :
       /\ matched_data[k].link_id # ""
       /\ matched_data[k].link_id = matched_data[k].api_data.linkId
  /\ (pc = "loop" \/ queries # <<>>) => error = "none"
  /\ LoopReturned =>
       Len(queries) <= Len(TableQueries) * Len(SelectSeq(traffic_items, has_link_id))

C18_Witness ==
  /\ LoopReturned
  /\ Len(traffic_items) = 3
  /\ traffic_items[2].linkId = ""
  /\ Len(matched_data) = 2
  /\ Len(queries) = 2

\* C19: an invocation given an encoded polyline (which is never decoded to
\* coordinates) and at least one reading does not return a list; it ends with
\* an error.
C19_DecodeFailureIsFatal ==
  (route_geometry = "encoded" /\ traffic_items # <<>> /\ pc # "idle") =>
    pc = "raised"

C19_Witness ==
  /\ route_geometry = "encoded"
  /\ traffic_items # <<>>
  /\ pc = "returned"
  /\ error = "none"
  /\ matched_data = <<>>

\* C20: an invocation whose geometry has fewer than 2 coordinates, given at
\* least one reading, neither returns a list nor executes a query with an
\* absent route line.
C20_InvalidGeometryFails ==
  (route_geometry \in {"coords0", "coords1"} /\ traffic_items # <<>>) =>
    /\ pc # "returned"
    /\ \A q \in 1..Len(queries) : queries[q].route_wkt # "NoLine"

C20_Witness ==
  /\ route_geometry = "coords1"
  /\ pc = "returned"
  /\ error = "none"
  /\ queries # <<>>
  /\ \A q \in 1..Len(queries) : queries[q].route_wkt = "NoLine"
  /\ matched_data = <<>>

\* C21: when the connection to the store cannot be opened, the matcher ends
\* with that error, having built no list and executed no query, and
\* calculate_updated_route ends with the same error instead of a document; an
\* invocation that got as far as the lookups ends without error, whatever the
\* lookups find.
C21_StoreUnavailablePropagates ==
  /\ error = "OperationalError" =>
       (pc = "raised" /\ matched_data = <<>> /\ queries = <<>>)
  /\ called = "calculate_updated_route" =>
       /\ pc = "raised" => returned = Raised(error)
       /\ pc = "returned" =>
            (returned.kind = "dict" /\ returned.matched_traffic = matched_data)
  /\ (pc = "loop" \/ LoopReturned) => error = "none"

C21_Witness ==
  /\ called = "calculate_updated_route"
  /\ pc = "raised"
  /\ error = "OperationalError"
  /\ traffic_items # <<>>
  /\ returned = Raised("OperationalError")

\* C29: whenever an invocation of match_traffic_to_route has ended, by an
\* early return, a return after the loop or an exception, its connection is
\* closed.
C29_ConnectionClosedAtEnd ==
  pc \in {"returned", "raised"} => conn = "closed"

C29_Witness ==
  /\ pc = "raised"
  /\ error = "AttributeError"
  /\ route_geometry = "other"
  /\ conn = "open"

(***************************************************************************)
(* Properties of _extract_route_roads (specification SpecRoads)            *)
(***************************************************************************)
\* the legs of a list of legs, the steps of a leg that carries a list
ListedIn(v) == IF v.kind = "list" THEN SeqToSet(v.items) ELSE {}
StepsUnder(legs) ==
  UNION {ListedIn(leg.steps) :
           leg \in {l \in ListedIn(legs) : l.kind = "dict" /\ l.has_steps}}
NamesUnder(legs) ==
  {step.name :
     step \in {st \in StepsUnder(legs) :
                 /\ st.kind = "dict"
                 /\ st.has_name
                 /\ st.name.kind = "str"
                 /\ st.name.value \notin {<<>>, Unnamed}}}
DirectLegsOf(doc) ==
  IF doc.kind = "dict" /\ doc.has_legs THEN doc.legs ELSE List(<<>>)
NestedLegsOf(doc) ==
  IF doc.kind = "dict" /\ doc.has_result /\ doc.result.kind = "list"
     /\ doc.result.items # <<>>
  THEN LET item == doc.result.items[1]
       IN IF item.kind = "dict" /\ item.has_routes /\ item.routes.kind = "list"
             /\ item.routes.items # <<>>
          THEN LET route == item.routes.items[1]
               IN IF route.kind = "dict" /\ route.has_legs THEN route.legs
                  ELSE List(<<>>)
          ELSE List(<<>>)
  ELSE List(<<>>)

\* C24: _extract_route_roads returns each distinct step name found under
\* route.legs[].steps[] or result[0].routes[0].legs[].steps[] exactly once,
\* never the empty name nor the placeholder, and raises for no document:
\* absent legs or steps and every other shape give no names.
C24_RoadsExtractedWithoutRaising ==
  called = "extract_route_roads" =>
    /\ returned.kind = "list"
    /\ \A i, j \in 1..Len(returned.names) :
         returned.names[i] = returned.names[j] => i = j
    /\ SeqToSet(returned.names)
         = NamesUnder(DirectLegsOf(route_document))
             \cup NamesUnder(NestedLegsOf(route_document))
    /\ Str(<<>>) \notin SeqToSet(returned.names)
    /\ Str(Unnamed) \notin SeqToSet(returned.names)

\* a leg whose 'steps' is null makes the function raise
C24_Witness ==
  /\ called = "extract_route_roads"
  /\ route_document = Document(TRUE, List(<<LegDict(TRUE, None)>>), FALSE, None)
  /\ returned = Raised("TypeError")

\* whenever the function returns, it returns what C24 says
C24_ReturnedNamesAreRight ==
  (called = "extract_route_roads" /\ returned.kind = "list") =>
    /\ \A i, j \in 1..Len(returned.names) :
         returned.names[i] = returned.names[j] => i = j
    /\ SeqToSet(returned.names)
         = NamesUnder(DirectLegsOf(route_document))
             \cup NamesUnder(NestedLegsOf(route_document))

(***************************************************************************)
(* Properties of the request surfaces (specification SpecRequest)          *)
(***************************************************************************)
InvalidWaypoints(req) ==
  /\ req.surface # "none"
  /\ req.has_waypoints
  /\ \/ Len(req.waypoints) < 2
     \/ \E i \in 1..Len(req.waypoints) : lacks_coordinate(req.waypoints[i])

InputErrors ==
  {"waypoints array is required", "At least 2 waypoints are required",
   "Waypoint missing latitude or longitude"}

IsInputError(req, resp) ==
  /\ resp.status = "error"
  /\ resp.error \in InputErrors
  /\ req.surface = "http" => resp.http_status = 400

\* C22: on /analyze-route-simple and on both analyze_route tools a request
\* with fewer than 2 waypoints, or with a waypoint lacking latitude or
\* longitude, contacts neither the routing service nor the store and ends
\* with an input-error response, not an internal-error response.
C22_InvalidInputRejected ==
  InvalidWaypoints(request) =>
    /\ contacted = {}
    /\ rpc = "done" => IsInputError(request, response)

\* /analyze-route-simple answers 500 'Internal server error' for a waypoint
\* without longitude
C22_Witness ==
  /\ rpc = "done"
  /\ request = [surface |-> "http", tool |-> "analyze_route_simple",
                has_waypoints |-> TRUE,
                waypoints |-> <<Complete,
                                [latitude |-> TRUE, longitude |-> FALSE]>>]
  /\ response = ErrorResponse(500, "Internal server error")
  /\ contacted = {}

\* the two analyze_route tools do what C22 says
C22_McpRejectsInvalidInput ==
  (InvalidWaypoints(request) /\ request.tool = "analyze_route") =>
    /\ contacted = {}
    /\ rpc = "done" => IsInputError(request, response)

\* C23: an unanswered routing call or store connection attempt is abandoned
\* after a bounded wait and the request fails: while the handler waits for
\* either, it is always able to go on by itself, without an answer.
C23_WaitIsBounded ==
  rpc \in {"waiting_osrm", "waiting_analysis"} => ENABLED WorkerStep

\* the handler sits in requests.get
C23_Witness ==
  /\ rpc = "waiting_osrm"
  /\ contacted = {"osrm"}
  /\ response = Unset

\* C30: for every successful analysis get_route_comparison reports
\* traffic_condition 'unknown', whatever the time difference.
C30_ComparisonConditionUnknown ==
  (rpc = "done" /\ request.tool = "get_route_comparison"
     /\ response.status = "success")
    => response.traffic_condition = "unknown"

\* a comparison of a route the traffic delays by more than 20 percent
C30_Witness ==
  /\ rpc = "done"
  /\ request.tool = "get_route_comparison"
  /\ response.status = "success"
  /\ response.traffic_condition = "unknown"
  /\ extract_traffic_adjusted_route_simple(result).traffic_condition
       = "heavy_delay"

====
